---- MODULE Spec2Model ----
(***************************************************************************)
(* article-digester: the per-user concept memory (backend/memory.py), the  *)
(* concept pipeline (backend/processing.py) and the HTTP endpoints that    *)
(* drive them (backend/main.py), and the user store (backend/users.py).    *)
(*                                                                         *)
(* Text.  A Python str is modelled as a sequence of tokens.  A token is a  *)
(* separator or tag the parsers look for ("|", "-", " ", "\n", "**",       *)
(* "**Concept:", "Explanation:", "Analogy:") or a whole word; the string   *)
(* operations the code uses (split, strip, lower, `in`, the three regular  *)
(* expressions of parse_concepts) are computed on that sequence.  The      *)
(* empty str is << >>.  None is the one-token sequence None.               *)
(***************************************************************************)
EXTENDS Integers, Sequences, FiniteSets, TLC

\* ------------------------------------------------------------------ bounds

\* Calls of process_article / process_article_with_user over a behaviour.
MaxCalls == 2

\* Calls of store_concepts made directly on a memory handle (SpecMem).
MaxStores == 2

\* Concept blocks in an explanation text given to parse_concepts (SpecParse).
MaxBlocks == 3

\* Lines in an identification answer given to the entry parser (SpecParse).
MaxLines == 3

\* ------------------------------------------------------- program constants

\* memory.py:49  n_results=3
NResults == 3

\* memory.py:59  `if distance < 0.5` (distances are in tenths)
HardThreshold == 5

\* memory.py:40  threshold=0.7 in the signature of check_prior_knowledge
DefaultThreshold == 7

\* memory.py:109  [:5]
RecentCount == 5

\* processing.py:109, 148  len(text) < 100
MinTextLength == 100

\* ------------------------------------------------------------------- text

None == <<"<None>">>

Whitespace == {" ", "\n"}

\* str.lower() on one token: the capitalised words the model's texts use.
LowerTok(t) ==
    CASE t = "No" -> "no"
      [] t = "NO" -> "no"
      [] t = "Prior" -> "prior"
      [] t = "PRIOR" -> "prior"
      [] t = "Connection" -> "connection"
      [] t = "CONNECTION" -> "connection"
      [] t = "Caching" -> "caching"
      [] t = "Memoization" -> "memoization"
      [] t = "Databases" -> "databases"
      [] t = "Cooking" -> "cooking"
      [] t = "Connection." -> "connection."
      [] t = "X" -> "x"
      [] t = "Alice" -> "alice"
      [] t = "ALICE" -> "alice"
      [] t = "Ann" -> "ann"
      [] t = "Lee" -> "lee"
      [] t = "Y" -> "y"
      [] OTHER -> t

Lower(s) == [i \in 1..Len(s) |-> LowerTok(s[i])]

Contains(s, c) == \E i \in 1..Len(s) : s[i] = c

\* The least index of c in s (s contains c).
IndexOf(s, c) == CHOOSE i \in 1..Len(s) : s[i] = c /\ \A j \in 1..(i - 1) : s[j] # c

RECURSIVE Split(_, _)
\* str.split(sep): always at least one part; "a|".split("|") = ["a", ""].
Split(s, sep) ==
    IF ~Contains(s, sep) THEN <<s>>
    ELSE <<SubSeq(s, 1, IndexOf(s, sep) - 1)>>
            \o Split(SubSeq(s, IndexOf(s, sep) + 1, Len(s)), sep)

RECURSIVE LStripChars(_, _)
LStripChars(s, cs) ==
    IF s # << >> /\ Head(s) \in cs THEN LStripChars(Tail(s), cs) ELSE s

RECURSIVE RStripChars(_, _)
RStripChars(s, cs) ==
    IF s # << >> /\ s[Len(s)] \in cs
    THEN RStripChars(SubSeq(s, 1, Len(s) - 1), cs) ELSE s

\* str.strip(chars)
StripChars(s, cs) == RStripChars(LStripChars(s, cs), cs)

\* str.strip()
Strip(s) == StripChars(s, Whitespace)

RECURSIVE Join(_, _)
\* sep.join(parts)
Join(parts, sep) ==
    IF parts = << >> THEN << >>
    ELSE IF Len(parts) = 1 THEN parts[1]
    ELSE parts[1] \o sep \o Join(Tail(parts), sep)

\* ------------------------------------------------------------------ dicts

\* A Python dict is a function on its set of keys.
EmptyDict == << >>

DictSet(d, k, v) == [x \in (DOMAIN d) \cup {k} |-> IF x = k THEN v ELSE d[x]]

DictGet(d, k, default) == IF k \in DOMAIN d THEN d[k] ELSE default

\* ---------------------------------------------------- parse_relationships

\* processing.py:321  the sentinel compared with related_to.lower()
NoPriorConnection == <<"no", " ", "prior", " ", "connection">>

\* processing.py:315  parts = [p.strip() for p in line.split('|')]
RelParts(line) == [i \in 1..Len(Split(line, "|")) |-> Strip(Split(line, "|")[i])]

\* processing.py:314-321  the line contributes an entry
RelLineKept(line) ==
    /\ Contains(line, "|")
    /\ Len(RelParts(line)) >= 3
    /\ Lower(RelParts(line)[2]) # NoPriorConnection

RECURSIVE ParseRelLines(_, _)
\* processing.py:313-322  the loop over the lines, later lines overwriting
ParseRelLines(lines, connection_map) ==
    IF lines = << >> THEN connection_map
    ELSE ParseRelLines(
            Tail(lines),
            IF RelLineKept(Head(lines))
            THEN DictSet(connection_map, RelParts(Head(lines))[1],
                         <<RelParts(Head(lines))[2], RelParts(Head(lines))[3]>>)
            ELSE connection_map)

parse_relationships(relationships_text) ==
    ParseRelLines(Split(relationships_text, "\n"), EmptyDict)

\* --------------------------------------------------------- parse_concepts

RECURSIVE SplitConcept(_)
\* processing.py:29  re.split(r'\*\*Concept:\s*', concepts_text): the tag and
\* the whitespace after it are the separator.
SplitConcept(s) ==
    IF ~Contains(s, "**Concept:") THEN <<s>>
    ELSE <<SubSeq(s, 1, IndexOf(s, "**Concept:") - 1)>>
            \o SplitConcept(LStripChars(
                    SubSeq(s, IndexOf(s, "**Concept:") + 1, Len(s)), Whitespace))

\* processing.py:34  re.search(r'^(.+?)\*\*', section): the ends k of a name
\* of one or more tokens, none a line break ('.' without DOTALL), followed by
\* "**".
NameEnds(section) ==
    {k \in 1..(Len(section) - 1) :
        /\ section[k + 1] = "**"
        /\ \A j \in 1..k : section[j] # "\n"}

\* The lazy (.+?) takes the shortest name.
NameEnd(section) == CHOOSE k \in NameEnds(section) : \A j \in NameEnds(section) : k <= j

\* re.search(tag + r'\s*(.+?)(?=stop|$)', section, re.DOTALL).group(1).strip(),
\* or "" when there is no match (processing.py:40-41, 44-45).  The search
\* matches at the first tag that has a token after it, hence at the first tag
\* unless it ends the section.  \s* is greedy, so the group starts at the
\* first token after the tag that is not whitespace, and runs (lazily) to the
\* token before the first stop tag or to the end; when only whitespace follows
\* the tag, the group is whitespace and strips to "".  ($ also matches before
\* a final line break: strip() makes that the same string.)
TagBody(section, tag, stops) ==
    IF ~Contains(section, tag) \/ IndexOf(section, tag) = Len(section) THEN << >>
    ELSE LET rest == LStripChars(SubSeq(section, IndexOf(section, tag) + 1,
                                        Len(section)), Whitespace)
             ends == {e \in 1..Len(rest) : e = Len(rest) \/ rest[e + 1] \in stops}
         IN IF rest = << >> THEN << >>
            ELSE Strip(SubSeq(rest, 1, CHOOSE e \in ends : \A f \in ends : e <= f))

\* Mutant: a section without a name is kept, with an empty name.
ParseSection_KeepNameless(section) ==
    << [name |-> IF NameEnds(section) = {} THEN << >>
                 ELSE Strip(SubSeq(section, 1, NameEnd(section))),
        explanation |-> TagBody(section, "Explanation:", {"Analogy:"}),
        analogy |-> TagBody(section, "Analogy:", {})] >>

\* processing.py:32-51  one section after the first
ParseSection(section) ==
    IF NameEnds(section) = {} THEN << >>
    ELSE << [name |-> Strip(SubSeq(section, 1, NameEnd(section))),
             explanation |-> TagBody(section, "Explanation:", {"Analogy:"}),
             analogy |-> TagBody(section, "Analogy:", {})] >>

RECURSIVE ParseSections(_)
ParseSections(sections) ==
    IF sections = << >> THEN << >>
    ELSE ParseSection(Head(sections)) \o ParseSections(Tail(sections))

\* processing.py:20-56
parse_concepts(concepts_text) == ParseSections(Tail(SplitConcept(concepts_text)))

\* ------------------------------------- simplify_concepts: identification

\* processing.py:215  parts = line.strip('- ').split('|')
EntryParts(line) == Split(StripChars(line, {"-", " "}), "|")

\* Mutant: a line of more than two fields gives its first two.
ParseEntryLine_Lenient(line) ==
    IF Contains(line, "|") /\ Len(EntryParts(line)) >= 2
    THEN << [name |-> Strip(EntryParts(line)[1]),
             domain |-> Strip(EntryParts(line)[2])] >>
    ELSE << >>

\* processing.py:214-220
ParseEntryLine(line) ==
    IF Contains(line, "|") /\ Len(EntryParts(line)) = 2
    THEN << [name |-> Strip(EntryParts(line)[1]),
             domain |-> Strip(EntryParts(line)[2])] >>
    ELSE << >>

RECURSIVE ParseEntryLines(_)
ParseEntryLines(lines) ==
    IF lines = << >> THEN << >>
    ELSE ParseEntryLine(Head(lines)) \o ParseEntryLines(Tail(lines))

\* processing.py:211-220
parse_concept_entries(content) == ParseEntryLines(Split(content, "\n"))

\* ------------------------------------------------------------------ state

VARIABLES
    collections,    \* persist directory -> the records of its "learned_concepts"
                    \* collection, in insertion order (what chromadb persists)
    distance,       \* the embedding: <<query text, document>> -> distance in tenths
    now,            \* datetime.now()
    memory,         \* processing.py:18  the module-level `memory` reference
    run,            \* call -> the frame of process_article_with_user
    calls,          \* calls of process_article_with_user started so far
    stores,         \* direct store_concepts calls made so far (SpecMem)
    stored_names,   \* history: directory -> the names of the records added
    last,           \* the last direct operation on a handle and its result
    fn_in,          \* SpecParse: the parser called and the text it is given
    fn_out,         \* SpecParse: whether it returned, and what
    users           \* users.py:6  the entries of users.json, in the file's order

vars == <<collections, distance, now, memory, run, calls, stores, stored_names,
          last, fn_in, fn_out, users>>

\* ----------------------------------------------------------- ConceptMemory

Users == {"u1", "u2"}

\* The user_id of a handle opened without one.
NoUser == "<no user>"

\* memory.py:7  persist_directory="./concept_memory"
DefaultDir == "./concept_memory"

\* spec 4.1 open(user_id): "the user's isolated persisted collection"; a
\* directory of the user's own, different from the default one.
UserDir(user_id) == user_id

Dirs == {DefaultDir} \cup {UserDir(u) : u \in Users}

\* memory.py:7-13  ConceptMemory(persist_directory): a handle on the collection
\* persisted under that directory (get_or_create: absent is empty).
ConceptMemory(persist_directory) ==
    [user_id |-> NoUser, persist_directory |-> persist_directory]

\* ConceptMemory(user_id=user_id), as processing.py:430 and main.py:200, 234
\* call it.  memory.py:7 declares persist_directory only; the constructor that
\* takes user_id is not among the sources and is modelled from spec 4.1.
ConceptMemoryOfUser(user_id) ==
    [user_id |-> user_id, persist_directory |-> UserDir(user_id)]

UserHandles == {ConceptMemoryOfUser(u) : u \in Users}

\* Mutant: every handle opens the one default collection.
Collection_Shared(self) == DefaultDir

\* memory.py:9-13  self.collection: the collection of the handle's directory
Collection(self) == self.persist_directory

General == <<"General">>

\* memory.py:25  f"{article_url}_{i}_{datetime.now().timestamp()}"
ConceptId(article_url, i, timestamp) == <<article_url, i, timestamp>>

\* memory.py:27-38  the record one collection.add writes.  `by_user` is
\* history: the user the storing call was made for.
NewRecord(concept, i, article_url, article_title, timestamp, by_user) ==
    [id |-> ConceptId(article_url, i, timestamp),
     document |-> concept["explanation"],
     concept_name |-> concept["name"],
     domain |-> DictGet(concept, "domain", General),
     analogy |-> DictGet(concept, "analogy", << >>),
     source_url |-> article_url,
     source_title |-> article_title,
     learned_date |-> timestamp,
     by_user |-> by_user]

\* Mutant: the new record goes first.
CollectionAdd_Front(collection, record) == <<record>> \o collection

\* Mutant: a record whose name is already stored is overwritten in place.
CollectionAdd_Upsert(collection, record) ==
    IF \E i \in 1..Len(collection) : collection[i].concept_name = record.concept_name
    THEN [i \in 1..Len(collection) |->
            IF collection[i].concept_name = record.concept_name
            THEN record ELSE collection[i]]
    ELSE Append(collection, record)

\* Mutant: a record whose name is already stored is not added.
CollectionAdd_DedupName(collection, record) ==
    IF \E i \in 1..Len(collection) : collection[i].concept_name = record.concept_name
    THEN collection
    ELSE Append(collection, record)

\* memory.py:27  collection.add of one record: the record goes last.  The
\* store keeps one record per id: an add under an id the collection already
\* holds leaves the collection as it was (or raises: MemStore's `done`).
CollectionAdd(collection, record) ==
    IF \E i \in 1..Len(collection) : collection[i].id = record.id
    THEN collection
    ELSE Append(collection, record)

RECURSIVE StoreLoop(_, _, _, _, _, _, _, _)
\* memory.py:24-38  iterations i .. n-1 of the loop, each add taking one tick
StoreLoop(collection, concepts_data, i, n, article_url, article_title, t, by_user) ==
    IF i >= n THEN collection
    ELSE StoreLoop(
            CollectionAdd(collection,
                          NewRecord(concepts_data[i + 1], i, article_url,
                                    article_title, t, by_user)),
            concepts_data, i + 1, n, article_url, article_title, t + 1, by_user)

\* ------------------------------------------------- check_prior_knowledge

Dist(query, document) == distance[<<query, document>>]

\* memory.py:47-50  collection.query(query_texts=[q], n_results=3): record i
\* ranks before record j when it is closer, or as close and stored earlier.
RankBefore(collection, query, i, j) ==
    \/ Dist(query, collection[i].document) < Dist(query, collection[j].document)
    \/ /\ Dist(query, collection[i].document) = Dist(query, collection[j].document)
       /\ i < j

Rank(collection, query, i) ==
    1 + Cardinality({j \in 1..Len(collection) : RankBefore(collection, query, j, i)})

Min(a, b) == IF a < b THEN a ELSE b

\* Mutant: the query is not limited to n_results records.
QueryResults_All(collection, query) ==
    [p \in 1..Len(collection) |->
        CHOOSE i \in 1..Len(collection) : Rank(collection, query, i) = p]

\* The indices of the n_results nearest records, closest first.
QueryResults(collection, query) ==
    [p \in 1..Min(NResults, Len(collection)) |->
        CHOOSE i \in 1..Len(collection) : Rank(collection, query, i) = p]

\* Python truthiness of the current_domain argument (memory.py:63)
Truthy(x) == x # None /\ x # << >>

\* memory.py:59  `if distance < 0.5`: the threshold argument is not read
PassesThreshold(d, threshold) == d < HardThreshold

\* Mutant: the domain gate is dropped.
DomainSkipped_Never(current_domain, concept_domain) == FALSE

\* memory.py:63-66  the record is skipped by the domain filter
DomainSkipped(current_domain, concept_domain) ==
    /\ Truthy(current_domain)
    /\ concept_domain # << >>
    /\ concept_domain # current_domain

\* memory.py:53-75  the records behind the returned list, in rank order
RelatedRecords(collection, concept_name, current_domain, threshold) ==
    LET hits == QueryResults(collection, concept_name)
        Keep(i) == /\ PassesThreshold(Dist(concept_name, collection[i].document),
                                      threshold)
                   /\ ~DomainSkipped(current_domain, collection[i].domain)
        kept == SelectSeq(hits, Keep)
    IN [k \in 1..Len(kept) |-> collection[kept[k]]]

\* memory.py:68-73
RelatedEntry(record) ==
    [concept |-> record.concept_name, explanation |-> record.document,
     source |-> record.source_title, date |-> record.learned_date]

\* memory.py:40-77
check_prior_knowledge(collection, concept_name, current_domain, threshold) ==
    LET rs == RelatedRecords(collection, concept_name, current_domain, threshold)
    IN [k \in 1..Len(rs) |-> RelatedEntry(rs[k])]

\* memory.py:79-88
get_all_concepts(collection) ==
    [i \in 1..Len(collection) |-> collection[i].concept_name]

\* Mutant: sorted without reverse=True, earliest first.
RecentBefore_Ascending(collection, i, j) ==
    \/ collection[i].learned_date < collection[j].learned_date
    \/ /\ collection[i].learned_date = collection[j].learned_date
       /\ i < j

\* sorted(metadatas, key=learned_date, reverse=True): stable, latest first
RecentBefore(collection, i, j) ==
    \/ collection[i].learned_date > collection[j].learned_date
    \/ /\ collection[i].learned_date = collection[j].learned_date
       /\ i < j

RecentRank(collection, i) ==
    1 + Cardinality({j \in 1..Len(collection) : RecentBefore(collection, j, i)})

\* memory.py:105-109 and main.py:253-257
Recent(collection) ==
    [p \in 1..Min(RecentCount, Len(collection)) |->
        collection[CHOOSE i \in 1..Len(collection) : RecentRank(collection, i) = p]]

\* memory.py:90-115
get_stats(collection) ==
    IF collection = << >>
    THEN [total_concepts |-> 0, total_articles |-> 0, recent_concepts |-> << >>]
    ELSE [total_concepts |-> Len(collection),
          total_articles |->
              Cardinality({collection[i].source_url : i \in 1..Len(collection)}),
          recent_concepts |->
              [p \in 1..Len(Recent(collection)) |-> Recent(collection)[p].concept_name]]

\* main.py:234  memory = ConceptMemory(user_id=user_id)
StatsEndpointMemory(user_id) == ConceptMemoryOfUser(user_id)

\* main.py:236-266  GET /api/stats once the collection is read
stats_endpoint(collection) ==
    IF collection = << >>
    THEN [total_concepts |-> 0, total_articles |-> 0,
          concepts_by_domain |-> EmptyDict, recent_concepts |-> << >>]
    ELSE [total_concepts |-> Len(collection),
          total_articles |->
              Cardinality({collection[i].source_url : i \in 1..Len(collection)}),
          concepts_by_domain |->
              [d \in {collection[i].domain : i \in 1..Len(collection)} |->
                  Cardinality({i \in 1..Len(collection) : collection[i].domain = d})],
          recent_concepts |->
              [p \in 1..Len(Recent(collection)) |-> Recent(collection)[p].concept_name]]

\* ----------------------------------------------------------------- inputs

Caching == <<"Caching">>

Memoization == <<"Memoization">>

Databases == <<"Databases">>

Cooking == <<"Cooking">>

\* Embedding distances, in tenths: below, at and above the 0.5 of memory.py:59.
DistanceValues == {4, 5, 6}

ArticleA == [url |-> "http://a", title |-> <<"A">>]

ArticleB == [url |-> "http://b", title |-> <<"B">>]

\* The arguments of a direct store_concepts call: concept dicts with and
\* without a 'domain' key and with an empty domain, from two sources.
StoreInputs ==
    { [concepts_data |->
          << [name |-> Caching, explanation |-> <<"e1">>, analogy |-> <<"a1">>,
              domain |-> Databases] >>,
       article |-> a] : a \in {ArticleA, ArticleB} }
    \cup
    { [concepts_data |->
          << [name |-> Memoization, explanation |-> <<"e2">>, analogy |-> << >>],
             [name |-> Caching, explanation |-> <<"e1">>, analogy |-> <<"a1">>,
              domain |-> << >>] >>,
       article |-> ArticleB] }

\* The arguments of a direct check_prior_knowledge("Caching", ...) call:
\* current_domain not given (None), empty, the stored domain and another one;
\* threshold not given (the signature's default is bound) and given.
CheckInputs ==
    { [current_domain |-> d, threshold_given |-> FALSE,
       threshold |-> DefaultThreshold] : d \in {None, << >>, Databases, Cooking} }
    \cup
    { [current_domain |-> None, threshold_given |-> TRUE,
       threshold |-> DefaultThreshold] }

NoCall == [op |-> "none"]

NoText == [fn |-> "none", text |-> << >>]

NotReturned == [returned |-> FALSE]

\* ---------------------------------------------------------------- frames

\* The threads that may be inside process_article_with_user at once.
Threads == {1, 2}

\* processing.py:379  return None, None, None
FailureResult == <<None, None, None>>

\* The request of a frame that serves none.
NoRequest == [source_type |-> "none"]

\* The frame of one call: the locals of process_article_with_user
\* (user_memory, old_memory), of process_article and simplify_concepts, and
\* the call's history (accessed: the collections it read or wrote; wrote: the
\* records it added; failure: what raised; relate_calls, llm_calls: the
\* relationship calls and all the LLM calls that returned).  When the call is
\* made by process_article_endpoint (caller = "endpoint") the frame also
\* holds the endpoint's: the request, what the extractor returned, the HTTP
\* status answered (0: none yet) and whether save_to_markdown ran.
IdleFrame ==
    [pc |-> "idle", user_id |-> NoUser, article |-> ArticleA,
     user_memory |-> ConceptMemory(DefaultDir),
     old_memory |-> ConceptMemory(DefaultDir),
     sections |-> None, concept_entries |-> << >>, k |-> 0,
     prior_knowledge |-> EmptyDict, connection_map |-> EmptyDict,
     simplified |-> None, questions |-> None, parsed_concepts |-> << >>,
     i |-> 0, store_self |-> ConceptMemory(DefaultDir), result |-> None,
     accessed |-> {}, wrote |-> 0, failure |-> "none", relate_calls |-> 0,
     llm_calls |-> 0,
     caller |-> "direct", request |-> NoRequest, extracted |-> None,
     http |-> 0, saved |-> FALSE]

\* ------------------------------------------- direct operations on a handle

PipelineUnchanged == UNCHANGED <<memory, run, calls>>

\* Neither a parser call nor the user store is touched.
ParseUnchanged == UNCHANGED <<fn_in, fn_out, users>>

\* memory.py:15-38  store_concepts on handle self; the add of concept number
\* `done` raises when done < len(concepts_data), and the loop ends there.
MemStore(self, in, done) ==
    /\ stores < MaxStores
    /\ stores' = stores + 1
    /\ collections' =
          [collections EXCEPT ![Collection(self)] =
              StoreLoop(@, in.concepts_data, 0, done, in.article.url,
                        in.article.title, now, self.user_id)]
    /\ now' = now + done
    /\ stored_names' =
          [stored_names EXCEPT ![self.persist_directory] =
              @ \o [i \in 1..done |-> in.concepts_data[i]["name"]]]
    /\ last' = [op |-> "store_concepts", self |-> self, in |-> in,
                raised |-> done < Len(in.concepts_data),
                before |-> collections[Collection(self)],
                ids |-> [i \in 1..done |->
                            ConceptId(in.article.url, i - 1, now + i - 1)]]
    /\ UNCHANGED distance
    /\ PipelineUnchanged /\ ParseUnchanged

\* memory.py:40-77  check_prior_knowledge("Caching", ...) on handle self
MemCheck(self, in) ==
    /\ last' = [op |-> "check_prior_knowledge", self |-> self,
                concept_name |-> Caching, in |-> in,
                records |-> RelatedRecords(collections[Collection(self)], Caching,
                                           in.current_domain, in.threshold),
                result |-> check_prior_knowledge(
                                collections[Collection(self)], Caching,
                                in.current_domain, in.threshold)]
    /\ UNCHANGED <<collections, distance, now, stores, stored_names>>
    /\ PipelineUnchanged /\ ParseUnchanged

\* memory.py:79-88  get_all_concepts on handle self
MemGetAll(self) ==
    /\ last' = [op |-> "get_all_concepts", self |-> self,
                records |-> collections[Collection(self)],
                result |-> get_all_concepts(collections[Collection(self)])]
    /\ UNCHANGED <<collections, distance, now, stores, stored_names>>
    /\ PipelineUnchanged /\ ParseUnchanged

\* memory.py:90-115  get_stats on handle self
MemGetStats(self) ==
    /\ last' = [op |-> "get_stats", self |-> self,
                records |-> collections[Collection(self)],
                result |-> get_stats(collections[Collection(self)])]
    /\ UNCHANGED <<collections, distance, now, stores, stored_names>>
    /\ PipelineUnchanged /\ ParseUnchanged

\* main.py:229-266  GET /api/stats for user_id
StatsEndpoint(user_id) ==
    /\ last' = [op |-> "stats_endpoint", self |-> StatsEndpointMemory(user_id),
                user_id |-> user_id,
                records |-> collections[Collection(StatsEndpointMemory(user_id))],
                result |-> stats_endpoint(
                              collections[Collection(StatsEndpointMemory(user_id))])]
    /\ UNCHANGED <<collections, distance, now, stores, stored_names>>
    /\ PipelineUnchanged /\ ParseUnchanged

InitMem ==
    /\ collections = [d \in Dirs |-> << >>]
    /\ distance \in [{Caching} \X {<<"e1">>, <<"e2">>} -> DistanceValues]
    /\ now = 0
    /\ memory = ConceptMemory(DefaultDir)
    /\ run = [t \in Threads |-> IdleFrame]
    /\ calls = 0
    /\ stores = 0
    /\ stored_names = [d \in Dirs |-> << >>]
    /\ last = NoCall
    /\ fn_in = NoText
    /\ fn_out = NotReturned
    /\ users = << >>

NextMem ==
    \/ \E self \in UserHandles, in \in StoreInputs :
          \E done \in 0..Len(in.concepts_data) : MemStore(self, in, done)
    \/ \E self \in UserHandles, in \in CheckInputs : MemCheck(self, in)
    \/ \E self \in UserHandles : MemGetAll(self)
    \/ \E self \in UserHandles : MemGetStats(self)
    \/ \E u \in Users : StatsEndpoint(u)

\* The memory operations called one after another on the users' handles.
SpecMem == InitMem /\ [][NextMem]_vars

\* Direct store_concepts calls of three concepts each, from two articles: two
\* of them put more than RecentCount records in a collection.
StatsStoreInputs ==
    { [concepts_data |->
          << [name |-> Caching, explanation |-> <<"e1">>, analogy |-> <<"a1">>],
             [name |-> Memoization, explanation |-> <<"e2">>, analogy |-> << >>],
             [name |-> <<"Indexing">>, explanation |-> <<"e3">>, analogy |-> << >>] >>,
       article |-> ArticleA],
      [concepts_data |->
          << [name |-> <<"Sharding">>, explanation |-> <<"e4">>, analogy |-> << >>],
             [name |-> Caching, explanation |-> <<"e1">>, analogy |-> <<"a1">>],
             [name |-> <<"Hashing">>, explanation |-> <<"e5">>, analogy |-> << >>] >>,
       article |-> ArticleB] }

NextStats ==
    \/ \E self \in UserHandles, in \in StatsStoreInputs :
          \E done \in 0..Len(in.concepts_data) : MemStore(self, in, done)
    \/ \E self \in UserHandles : MemGetStats(self)
    \/ \E u \in Users : StatsEndpoint(u)

\* store_concepts and the statistics, on collections of up to
\* 3 * MaxStores records.
SpecStats == InitMem /\ [][NextStats]_vars

\* Embedding distances of which two are below the 0.5 of memory.py:59.
NearDistanceValues == {3, 4, 5}

InitNear ==
    /\ collections = [d \in Dirs |-> << >>]
    /\ distance \in [{Caching} \X {<<"e1">>, <<"e2">>} -> NearDistanceValues]
    /\ now = 0
    /\ memory = ConceptMemory(DefaultDir)
    /\ run = [t \in Threads |-> IdleFrame]
    /\ calls = 0
    /\ stores = 0
    /\ stored_names = [d \in Dirs |-> << >>]
    /\ last = NoCall
    /\ fn_in = NoText
    /\ fn_out = NotReturned
    /\ users = << >>

NextNear ==
    \/ \E self \in UserHandles, in \in StoreInputs :
          \E done \in 0..Len(in.concepts_data) : MemStore(self, in, done)
    \/ \E self \in UserHandles, in \in CheckInputs : MemCheck(self, in)

\* store_concepts and check_prior_knowledge on records at two distances
\* within the threshold and one at it.
SpecNear == InitNear /\ [][NextNear]_vars

\* memory.py:25  datetime.now() returns a value it has returned before (the
\* wall clock is stepped back, or is coarser than the time between two adds,
\* or two threads read it within its resolution).
ClockRepeats ==
    /\ now > 0
    /\ now' \in 0..(now - 1)
    /\ UNCHANGED <<collections, distance, stores, stored_names, last>>
    /\ PipelineUnchanged /\ ParseUnchanged

NextClock ==
    \/ NextMem
    \/ ClockRepeats

\* The memory operations under a wall clock that need not advance.
SpecClock == InitMem /\ [][NextClock]_vars

\* ------------------------------------------------------- the LLM's answers

\* break_into_sections' response.content
SectionsText == <<"##", " ", "Section", " ", "1">>

\* generate_questions' response.content
QuestionsText == <<"1.", " ", "Why?">>

\* The identification call's response.content: two well-formed lines; or one
\* line with an empty domain after one without a separator.
IdentifyResponses ==
    { <<"-", " ", "Caching", " ", "|", " ", "Databases", "\n",
        "-", " ", "Memoization", " ", "|", " ", "Cooking">>,
      <<"Concepts:", "\n", "-", " ", "Caching", " ", "|">> }

\* The relationship call's response.content
RelationshipResponses ==
    { <<"Caching", " ", "|", " ", "Memoization", " ", "|", " ", "builds", " ", "on">>,
      <<"Caching", " ", "|", " ", "No", " ", "prior", " ", "connection", " ", "|",
        " ", "-">> }

\* The explanation call's response.content: two well-formed blocks; one
\* block without an 'Explanation:' tag; no block at all.
ExplanationResponses ==
    { <<"**Concept:", " ", "Caching", "**", "\n",
        "Explanation:", " ", "e1", "\n", "Analogy:", " ", "a1", "\n", "\n",
        "**Concept:", " ", "Memoization", "**", "\n",
        "Explanation:", " ", "e2", "\n", "Analogy:", " ", "a2">>,
      <<"**Concept:", " ", "Caching", "**", "\n", "Analogy:", " ", "a1">>,
      <<"Nothing", " ", "to", " ", "explain">> }

\* The embeddings the pipeline is run with: every stored explanation near
\* every query, and only "e1" near "Caching".
PipelineDistances ==
    { [p \in {Caching, Memoization} \X {<<"e1">>, <<"e2">>, << >>} |-> 4],
      [p \in {Caching, Memoization} \X {<<"e1">>, <<"e2">>, << >>} |->
          IF p = <<Caching, <<"e1">> >> THEN 4 ELSE 6] }

\* ------------------------------------------------------ process_article

MemUnchanged == UNCHANGED <<stores, stored_names, last>>

Frame(t) == run[t]

SetFrame(t, f) == run' = [run EXCEPT ![t] = f]

\* Mutant: the sections already generated are returned with the failure.
ExceptResult_Partial(f) == <<f.sections, None, None>>

\* processing.py:375-379  except Exception: return None, None, None
ExceptResult(f) == FailureResult

\* Mutant: a failed run starts again from the section breakdown.
Raised_Retry(f, what) == [f EXCEPT !.pc = "sections", !.failure = what]

\* Mutant: the except clause raises again; the call has no result.
Raised_Reraise(f, what) ==
    [f EXCEPT !.pc = "restore", !.result = None, !.failure = what,
              !.concept_entries = << >>, !.k = 0, !.prior_knowledge = EmptyDict,
              !.connection_map = EmptyDict, !.parsed_concepts = << >>, !.i = 0,
              !.sections = None, !.simplified = None, !.questions = None]

\* The frame once an exception reached process_article's except clause: the
\* call goes on to the finally clause of process_article_with_user.
Raised(f, what) ==
    [f EXCEPT !.pc = "restore", !.result = ExceptResult(f), !.failure = what,
              !.concept_entries = << >>, !.k = 0, !.prior_knowledge = EmptyDict,
              !.connection_map = EmptyDict, !.parsed_concepts = << >>, !.i = 0,
              !.sections = None, !.simplified = None, !.questions = None]

\* processing.py:373  return sections, simplified, questions
Returned(f) ==
    [f EXCEPT !.pc = "restore",
              !.result = <<f.sections, f.simplified, f.questions>>,
              !.concept_entries = << >>, !.k = 0, !.prior_knowledge = EmptyDict,
              !.parsed_concepts = << >>, !.i = 0]

\* processing.py:425-434  process_article_with_user is entered, on the first
\* thread that is free: user_memory = ConceptMemory(user_id=user_id);
\* old_memory = memory
Begin(t, user_id, article) ==
    /\ Frame(t).pc = "idle"
    /\ \A other \in Threads : other < t => Frame(other).pc # "idle"
    /\ calls < MaxCalls
    /\ calls' = calls + 1
    /\ SetFrame(t, [IdleFrame EXCEPT !.pc = "swap", !.user_id = user_id,
                                     !.article = article,
                                     !.user_memory = ConceptMemoryOfUser(user_id),
                                     !.old_memory = memory])
    /\ UNCHANGED <<collections, distance, now, memory>>
    /\ MemUnchanged /\ ParseUnchanged

\* processing.py:435  memory = user_memory
Swap(t) ==
    /\ Frame(t).pc = "swap"
    /\ memory' = Frame(t).user_memory
    /\ SetFrame(t, [Frame(t) EXCEPT !.pc = "sections"])
    /\ UNCHANGED <<collections, distance, now, calls>>
    /\ MemUnchanged /\ ParseUnchanged

\* processing.py:344  sections = break_into_sections(article_text)
Sections(t) ==
    /\ Frame(t).pc = "sections"
    /\ SetFrame(t, [Frame(t) EXCEPT !.pc = "identify", !.sections = SectionsText,
                                     !.llm_calls = @ + 1])
    /\ UNCHANGED <<collections, distance, now, memory, calls>>
    /\ MemUnchanged /\ ParseUnchanged

\* An LLM call (chain.invoke at processing.py:181, 209, 263, 303, 337) raises.
LLMFails(t) ==
    /\ Frame(t).pc \in {"sections", "identify", "relate", "explain", "questions"}
    /\ SetFrame(t, Raised(Frame(t), "llm"))
    /\ UNCHANGED <<collections, distance, now, memory, calls>>
    /\ MemUnchanged /\ ParseUnchanged

\* Mutant: the relationship call is made whether or not anything matched.
AfterLookup_Always(prior_knowledge) == "relate"

\* processing.py:232, 270-271  `if prior_knowledge:` the relationship call is
\* next, else connection_map = {} and the explanation call is next
AfterLookup(prior_knowledge) ==
    IF prior_knowledge # EmptyDict THEN "relate" ELSE "explain"

\* processing.py:208-223  the identification call and the parse of its answer
Identify(t, content) ==
    /\ Frame(t).pc = "identify"
    /\ LET entries == parse_concept_entries(content)
       IN SetFrame(t, [Frame(t) EXCEPT
                          !.pc = IF entries = << >> THEN AfterLookup(EmptyDict)
                                 ELSE "lookup",
                          !.concept_entries = entries, !.k = 1,
                          !.llm_calls = @ + 1])
    /\ UNCHANGED <<collections, distance, now, memory, calls>>
    /\ MemUnchanged /\ ParseUnchanged

\* Mutant: a name that already has an entry keeps it.
KeepMatch_FirstWins(prior_knowledge, name, related) ==
    IF related # << >> /\ name \notin DOMAIN prior_knowledge
    THEN DictSet(prior_knowledge, name, related[1])
    ELSE prior_knowledge

\* processing.py:229-230  if related: prior_knowledge[entry['name']] = related[0]
KeepMatch(prior_knowledge, name, related) ==
    IF related # << >>
    THEN DictSet(prior_knowledge, name, related[1])
    ELSE prior_knowledge

\* processing.py:224-230  one iteration of the lookup loop: the module-level
\* `memory` is read, and the first related record, if any, is kept.
Lookup(t) ==
    /\ Frame(t).pc = "lookup"
    /\ LET f == Frame(t)
           entry == f.concept_entries[f.k]
           related == check_prior_knowledge(collections[Collection(memory)],
                                            entry.name, entry.domain,
                                            DefaultThreshold)
           found == KeepMatch(f.prior_knowledge, entry.name, related)
           last_one == f.k = Len(f.concept_entries)
       IN SetFrame(t, [f EXCEPT
              !.prior_knowledge = found,
              !.accessed = @ \cup {Collection(memory)},
              !.k = IF last_one THEN 0 ELSE f.k + 1,
              !.pc = IF ~last_one THEN "lookup" ELSE AfterLookup(found)])
    /\ UNCHANGED <<collections, distance, now, memory, calls>>
    /\ MemUnchanged /\ ParseUnchanged

\* memory.check_prior_knowledge raises at processing.py:225; nothing between
\* there and process_article's except clause catches it.
LookupFails(t) ==
    /\ Frame(t).pc = "lookup"
    /\ SetFrame(t, Raised([Frame(t) EXCEPT !.accessed = @ \cup {Collection(memory)}],
                          "lookup"))
    /\ UNCHANGED <<collections, distance, now, memory, calls>>
    /\ MemUnchanged /\ ParseUnchanged

\* processing.py:232-269  the relationship call and the parse of its answer
Relate(t, content) ==
    /\ Frame(t).pc = "relate"
    /\ SetFrame(t, [Frame(t) EXCEPT !.pc = "explain",
                                     !.connection_map = parse_relationships(content),
                                     !.relate_calls = @ + 1,
                                     !.llm_calls = @ + 1])
    /\ UNCHANGED <<collections, distance, now, memory, calls>>
    /\ MemUnchanged /\ ParseUnchanged

\* processing.py:273-304  the explanation call; simplify_concepts returns
\* (response.content, prior_knowledge, concept_entries) and its other locals
\* are gone
Explain(t, content) ==
    /\ Frame(t).pc = "explain"
    /\ SetFrame(t, [Frame(t) EXCEPT !.pc = "questions", !.simplified = content,
                                     !.connection_map = EmptyDict,
                                     !.llm_calls = @ + 1])
    /\ UNCHANGED <<collections, distance, now, memory, calls>>
    /\ MemUnchanged /\ ParseUnchanged

\* Mutant: concepts beyond the identified entries are cut off.
AnnotateDomains_Truncate(parsed_concepts, concept_entries) ==
    [i \in 1..Min(Len(parsed_concepts), Len(concept_entries)) |->
        DictSet(parsed_concepts[i], "domain", concept_entries[i].domain)]

\* Mutant: a concept takes the domain of the entry that has its name.
AnnotateDomains_ByName(parsed_concepts, concept_entries) ==
    [i \in 1..Len(parsed_concepts) |->
        IF \E k \in 1..Len(concept_entries) :
              concept_entries[k].name = parsed_concepts[i]["name"]
        THEN DictSet(parsed_concepts[i], "domain",
                     concept_entries[CHOOSE k \in 1..Len(concept_entries) :
                        concept_entries[k].name = parsed_concepts[i]["name"]].domain)
        ELSE parsed_concepts[i]]

\* processing.py:365-367  concept i takes the domain of entry i, while there is one
AnnotateDomains(parsed_concepts, concept_entries) ==
    [i \in 1..Len(parsed_concepts) |->
        IF i <= Len(concept_entries)
        THEN DictSet(parsed_concepts[i], "domain", concept_entries[i].domain)
        ELSE parsed_concepts[i]]

\* Mutant: store_concepts is called whatever the parse gave.
AfterParse_Always(parsed_concepts) == "store"

\* processing.py:369  `if parsed_concepts:` store_concepts is next, else the
\* return
AfterParse(parsed_concepts) ==
    IF parsed_concepts # << >> THEN "store" ELSE "return"

\* processing.py:357-373  the questions call, the parse of the explanations,
\* and either the read of `memory` for store_concepts or the return
Questions(t) ==
    /\ Frame(t).pc = "questions"
    /\ LET f == [Frame(t) EXCEPT !.questions = QuestionsText, !.llm_calls = @ + 1]
           parsed == AnnotateDomains(parse_concepts(f.simplified), f.concept_entries)
       IN SetFrame(t, IF AfterParse(parsed) = "return" THEN Returned(f)
                      ELSE [f EXCEPT !.pc = "store", !.parsed_concepts = parsed,
                                     !.i = 0, !.store_self = memory,
                                     !.prior_knowledge = EmptyDict])
    /\ UNCHANGED <<collections, distance, now, memory, calls>>
    /\ MemUnchanged /\ ParseUnchanged

\* memory.py:24-38  one iteration of store_concepts' loop, on the handle that
\* `memory` named at processing.py:370; after the last one process_article
\* returns its triple.
StoreAdd(t) ==
    /\ Frame(t).pc = "store"
    /\ Frame(t).i < Len(Frame(t).parsed_concepts)
    /\ LET f == Frame(t)
           record == NewRecord(f.parsed_concepts[f.i + 1], f.i, f.article.url,
                               f.article.title, now, f.user_id)
           g == [f EXCEPT !.i = @ + 1, !.wrote = @ + 1,
                          !.accessed = @ \cup {Collection(f.store_self)}]
       IN /\ collections' = [collections EXCEPT ![Collection(f.store_self)] =
                                 CollectionAdd(@, record)]
          /\ stored_names' = [stored_names EXCEPT ![Collection(f.store_self)] =
                                 Append(@, record.concept_name)]
          /\ SetFrame(t, IF g.i = Len(f.parsed_concepts) THEN Returned(g) ELSE g)
    /\ now' = now + 1
    /\ UNCHANGED <<distance, memory, calls, stores, last>>
    /\ ParseUnchanged

\* Mutant: the adds the failed call had made are undone.
AfterFailedAdd_Rollback(collection, added) ==
    SubSeq(collection, 1, Len(collection) - added)

\* memory.py:24-38 and processing.py:375-379  the collection once an add of
\* store_concepts has raised, `added` adds of the call having returned: the
\* loop has no handler and the except clause of process_article only
\* returns, so the collection stays as the adds left it.
AfterFailedAdd(collection, added) == collection

\* collection.add raises (memory.py:27) and process_article's except catches it
StoreFails(t) ==
    /\ Frame(t).pc = "store"
    /\ SetFrame(t, Raised([Frame(t) EXCEPT
                              !.accessed = @ \cup {Collection(Frame(t).store_self)}],
                          "store"))
    /\ collections' = [collections EXCEPT ![Collection(Frame(t).store_self)] =
                           AfterFailedAdd(@, Frame(t).i)]
    /\ UNCHANGED <<distance, now, memory, calls>>
    /\ MemUnchanged /\ ParseUnchanged

\* processing.py:440-441  finally: memory = old_memory; the call returns its
\* result, to process_article_endpoint when it made the call
Restore(t) ==
    /\ Frame(t).pc = "restore"
    /\ memory' = Frame(t).old_memory
    /\ SetFrame(t, IF Frame(t).caller = "endpoint"
                   THEN [Frame(t) EXCEPT !.pc = "after"]
                   ELSE IdleFrame)
    /\ UNCHANGED <<collections, distance, now, calls>>
    /\ MemUnchanged /\ ParseUnchanged

Init ==
    /\ collections = [d \in Dirs |-> << >>]
    /\ distance \in PipelineDistances
    /\ now = 0
    /\ memory = ConceptMemory(DefaultDir)
    /\ run = [t \in Threads |-> IdleFrame]
    /\ calls = 0
    /\ stores = 0
    /\ stored_names = [d \in Dirs |-> << >>]
    /\ last = NoCall
    /\ fn_in = NoText
    /\ fn_out = NotReturned
    /\ users = << >>

Next ==
    \/ \E t \in Threads, u \in Users : Begin(t, u, ArticleA)
    \/ \E t \in Threads : Swap(t)
    \/ \E t \in Threads : Sections(t)
    \/ \E t \in Threads : LLMFails(t)
    \/ \E t \in Threads, content \in IdentifyResponses : Identify(t, content)
    \/ \E t \in Threads : Lookup(t)
    \/ \E t \in Threads : LookupFails(t)
    \/ \E t \in Threads, content \in RelationshipResponses : Relate(t, content)
    \/ \E t \in Threads, content \in ExplanationResponses : Explain(t, content)
    \/ \E t \in Threads : Questions(t)
    \/ \E t \in Threads : StoreAdd(t)
    \/ \E t \in Threads : StoreFails(t)
    \/ \E t \in Threads : Restore(t)

\* Calls of process_article_with_user from threads that interleave freely.
Spec == Init /\ [][Next]_vars

\* ------------------------------------------------ process_article_endpoint

\* An article text, by its length in characters.
Text(n) == <<"text", n>>

\* processing.py:115-117, 156-158  return None, None
ExtractFailure == <<None, None>>

\* Mutant: the length test is `<=`.
TooShort_Inclusive(n) == n <= MinTextLength

\* processing.py:109, 148  `not text or len(text) < 100`
TooShort(n) == n = 0 \/ n < MinTextLength

\* processing.py:102-117  extract_article_from_url on a page whose article
\* text has text_len characters; `raised`: download or parse raised.
extract_article_from_url(text_len, title, raised) ==
    IF raised \/ TooShort(text_len) THEN ExtractFailure
    ELSE <<Text(text_len), IF title = << >> THEN <<"Untitled">> ELSE title>>

RECURSIVE PdfTextLength(_)
\* processing.py:143-146  text += page.extract_text() + "\n\n", per page
PdfTextLength(pages) ==
    IF pages = << >> THEN 0 ELSE Head(pages) + 2 + PdfTextLength(Tail(pages))

\* processing.py:119-158  extract_from_pdf on a PDF whose pages have texts of
\* these lengths
extract_from_pdf(pages, title, raised) ==
    IF raised \/ TooShort(PdfTextLength(pages)) THEN ExtractFailure
    ELSE <<Text(PdfTextLength(pages)), title>>

\* The requests: pages of 0, 99, 100 and 250 characters, PDFs whose text
\* (page texts and the two line breaks after each) has 0, 99, 100 and 250
\* characters, a download that fails, and a source_type the endpoint does
\* not know.
Requests ==
    { [source_type |-> "url", source |-> ArticleA.url, title |-> ArticleA.title,
       text_len |-> n, pages |-> << >>, raised |-> FALSE] : n \in {0, 99, 100, 250} }
    \cup
    { [source_type |-> "pdf_url", source |-> ArticleB.url, title |-> ArticleB.title,
       text_len |-> PdfTextLength(ps), pages |-> ps, raised |-> FALSE] :
         ps \in {<< >>, <<97>>, <<98>>, <<123, 123>>} }
    \cup
    { [source_type |-> "url", source |-> ArticleA.url, title |-> ArticleA.title,
       text_len |-> 250, pages |-> << >>, raised |-> TRUE],
      [source_type |-> "file", source |-> ArticleA.url, title |-> ArticleA.title,
       text_len |-> 250, pages |-> << >>, raised |-> FALSE] }

\* main.py:117-136  POST /api/process-article arrives; requests are served
\* one at a time.
Request(t, user_id, req) ==
    /\ \A other \in Threads : Frame(other).pc = "idle"
    /\ \A other \in Threads : other >= t
    /\ calls < MaxCalls
    /\ calls' = calls + 1
    /\ SetFrame(t, [IdleFrame EXCEPT !.pc = "extract", !.caller = "endpoint",
                                     !.user_id = user_id, !.request = req])
    /\ UNCHANGED <<collections, distance, now, memory>>
    /\ MemUnchanged /\ ParseUnchanged

\* main.py:147-149, 152  what the extractor of the request's source_type returned
Extracted(req) ==
    IF req.source_type = "url"
    THEN extract_article_from_url(req.text_len, req.title, req.raised)
    ELSE extract_from_pdf(req.pages, req.title, req.raised)

\* main.py:146-165  the extraction and, when it gave a text, the call of
\* process_article_with_user up to processing.py:434; otherwise the 400.
Extract(t) ==
    /\ Frame(t).pc = "extract"
    /\ LET f == Frame(t)
           req == f.request
       IN SetFrame(t,
            IF req.source_type \notin {"url", "pdf_url"}
            THEN [f EXCEPT !.pc = "respond", !.http = 400]
            ELSE IF Extracted(req)[1] = None
            THEN [f EXCEPT !.pc = "respond", !.http = 400,
                           !.extracted = Extracted(req)]
            ELSE [f EXCEPT !.pc = "swap", !.extracted = Extracted(req),
                           !.article = [url |-> req.source,
                                        title |-> Extracted(req)[2]],
                           !.user_memory = ConceptMemoryOfUser(f.user_id),
                           !.old_memory = memory])
    /\ UNCHANGED <<collections, distance, now, memory, calls>>
    /\ MemUnchanged /\ ParseUnchanged

\* processing.py:430  ConceptMemory(user_id=user_id) raises (the store cannot
\* be opened): nothing is swapped yet, the exception leaves
\* process_article_with_user and main.py:187-190 turns it into a 500.
OpenFails(t) ==
    /\ Frame(t).pc = "swap"
    /\ Frame(t).caller = "endpoint"
    /\ SetFrame(t, [Frame(t) EXCEPT !.pc = "respond", !.http = 500,
                                     !.failure = "open"])
    /\ UNCHANGED <<collections, distance, now, memory, calls>>
    /\ MemUnchanged /\ ParseUnchanged

\* Mutant: the result is not tested.
ProcessingFailed_Never(result) == FALSE

\* main.py:168  `if sections is None or questions is None:`
ProcessingFailed(result) == result[1] = None \/ result[3] = None

\* main.py:167-184  after the call: 500 when sections or questions is None,
\* else save_to_markdown and the response
EndpointFinish(t) ==
    /\ Frame(t).pc = "after"
    /\ SetFrame(t, IF ProcessingFailed(Frame(t).result)
                   THEN [Frame(t) EXCEPT !.pc = "respond", !.http = 500]
                   ELSE [Frame(t) EXCEPT !.pc = "respond", !.http = 200,
                                         !.saved = TRUE])
    /\ UNCHANGED <<collections, distance, now, memory, calls>>
    /\ MemUnchanged /\ ParseUnchanged

\* The response is sent and the request is over.
Respond(t) ==
    /\ Frame(t).pc = "respond"
    /\ SetFrame(t, IdleFrame)
    /\ UNCHANGED <<collections, distance, now, memory, calls>>
    /\ MemUnchanged /\ ParseUnchanged

NextApi ==
    \/ \E t \in Threads, u \in Users, req \in Requests : Request(t, u, req)
    \/ \E t \in Threads : Extract(t)
    \/ \E t \in Threads : Swap(t)
    \/ \E t \in Threads : Sections(t)
    \/ \E t \in Threads : LLMFails(t)
    \/ \E t \in Threads, content \in IdentifyResponses : Identify(t, content)
    \/ \E t \in Threads : Lookup(t)
    \/ \E t \in Threads : LookupFails(t)
    \/ \E t \in Threads, content \in RelationshipResponses : Relate(t, content)
    \/ \E t \in Threads, content \in ExplanationResponses : Explain(t, content)
    \/ \E t \in Threads : Questions(t)
    \/ \E t \in Threads : StoreAdd(t)
    \/ \E t \in Threads : StoreFails(t)
    \/ \E t \in Threads : Restore(t)
    \/ \E t \in Threads : OpenFails(t)
    \/ \E t \in Threads : EndpointFinish(t)
    \/ \E t \in Threads : Respond(t)

\* Requests to POST /api/process-article, served one after another.
SpecApi == Init /\ [][NextApi]_vars

NextRace ==
    \/ Next
    \/ ClockRepeats

\* Interleaved calls under a wall clock that two store_concepts loops may
\* read at the same value.
SpecRace == Init /\ [][NextRace]_vars

\* No call of process_article_with_user is in progress.
Idle == \A t \in Threads : Frame(t).pc = "idle"

NextSeq ==
    \/ \E t \in Threads, u \in Users : Idle /\ Begin(t, u, ArticleA)
    \/ \E t \in Threads : Swap(t)
    \/ \E t \in Threads : Sections(t)
    \/ \E t \in Threads : LLMFails(t)
    \/ \E t \in Threads, content \in IdentifyResponses : Identify(t, content)
    \/ \E t \in Threads : Lookup(t)
    \/ \E t \in Threads : LookupFails(t)
    \/ \E t \in Threads, content \in RelationshipResponses : Relate(t, content)
    \/ \E t \in Threads, content \in ExplanationResponses : Explain(t, content)
    \/ \E t \in Threads : Questions(t)
    \/ \E t \in Threads : StoreAdd(t)
    \/ \E t \in Threads : StoreFails(t)
    \/ \E t \in Threads : Restore(t)
    \/ \E self \in UserHandles, in \in CheckInputs : Idle /\ MemCheck(self, in)
    \/ \E self \in UserHandles : Idle /\ MemGetAll(self)
    \/ \E self \in UserHandles : Idle /\ MemGetStats(self)
    \/ \E u \in Users : Idle /\ StatsEndpoint(u)

\* Calls of process_article_with_user one after another (the event loop of
\* main.py runs one request's call to its end before the next), with reads
\* of the users' memories between them.
SpecSeq == Init /\ [][NextSeq]_vars

\* The identification answers of SpecRun: two concepts of two domains; the
\* same two in the other order; one name twice, under two domains; one line
\* with an empty domain after a line without a separator.
RunIdentifyResponses ==
    { <<"-", " ", "Caching", " ", "|", " ", "Databases", "\n",
        "-", " ", "Memoization", " ", "|", " ", "Cooking">>,
      <<"-", " ", "Memoization", " ", "|", " ", "Cooking", "\n",
        "-", " ", "Caching", " ", "|", " ", "Databases">>,
      <<"-", " ", "Caching", " ", "|", " ", "Databases", "\n",
        "-", " ", "Caching", " ", "|", " ", "Cooking">>,
      <<"Concepts:", "\n", "-", " ", "Caching", " ", "|">> }

NextRun ==
    \/ \E t \in Threads : Idle /\ Begin(t, "u1", ArticleA)
    \/ \E t \in Threads : Swap(t)
    \/ \E t \in Threads : Sections(t)
    \/ \E t \in Threads : LLMFails(t)
    \/ \E t \in Threads, content \in RunIdentifyResponses : Identify(t, content)
    \/ \E t \in Threads : Lookup(t)
    \/ \E t \in Threads : LookupFails(t)
    \/ \E t \in Threads, content \in RelationshipResponses : Relate(t, content)
    \/ \E t \in Threads, content \in ExplanationResponses : Explain(t, content)
    \/ \E t \in Threads : Questions(t)
    \/ \E t \in Threads : StoreAdd(t)
    \/ \E t \in Threads : StoreFails(t)
    \/ \E t \in Threads : Restore(t)

\* One user's calls of process_article_with_user, one after another, on
\* identification answers that repeat a name or change the order.
SpecRun == Init /\ [][NextRun]_vars

\* The next statement of the call on thread t, once it is entered.
RunStep(t) ==
    \/ Swap(t)
    \/ Sections(t)
    \/ LLMFails(t)
    \/ \E content \in RunIdentifyResponses : Identify(t, content)
    \/ Lookup(t)
    \/ LookupFails(t)
    \/ \E content \in RelationshipResponses : Relate(t, content)
    \/ \E content \in ExplanationResponses : Explain(t, content)
    \/ Questions(t)
    \/ StoreAdd(t)
    \/ StoreFails(t)
    \/ Restore(t)

\* A thread inside a call goes on running: every LLM call and every memory
\* operation it waits for returns or raises, and the interpreter then
\* executes its next statement.
RunFairness == \A t \in Threads : WF_vars(RunStep(t))

\* SpecRun with calls that are not left waiting for ever.
SpecLive == Init /\ [][NextRun]_vars /\ RunFairness

\* ------------------------------------------------------------ the parsers

NewConcepts == {Caching, <<"X">>}

\* The second field of a relationship line: a concept, or the sentinel the
\* prompt asks for (processing.py:248) in three letter cases and with the
\* prompt's full stop.
RelatedTos ==
    { Memoization, <<"Y">>,
      <<"No", " ", "prior", " ", "connection">>,
      <<"no", " ", "prior", " ", "connection">>,
      <<"NO", " ", "PRIOR", " ", "CONNECTION">>,
      <<"No", " ", "prior", " ", "connection.">> }

Relationships ==
    { <<"builds", " ", "on">>, <<"No", " ", "prior", " ", "connection">>, <<"-">> }

Bar == <<" ", "|", " ">>

\* 'A | B | R'
RelLine(a, b, r) == a \o Bar \o b \o Bar \o r

RelLine3s == {RelLine(a, b, r) : a \in NewConcepts, b \in RelatedTos, r \in Relationships}

\* 'A | B', and a line without a separator
RelLine2s == {a \o Bar \o b : a \in NewConcepts, b \in RelatedTos}
                \cup {<<"Relationships:">>}

\* The relationship texts: every line alone, and every three-field line
\* after a line for "Caching".
RelationshipTexts ==
    RelLine3s \cup RelLine2s
    \cup {first \o <<"\n">> \o second :
            first \in {RelLine(Caching, Memoization, <<"builds", " ", "on">>),
                       <<"Relationships:">>},
            second \in RelLine3s}

\* parse_relationships(fn_in.text) returns (processing.py:306-324)
ParseRelationships ==
    /\ fn_in.fn = "parse_relationships"
    /\ ~fn_out.returned
    /\ fn_out' = [returned |-> TRUE, value |-> parse_relationships(fn_in.text)]
    /\ UNCHANGED <<collections, distance, now, memory, run, calls, stores,
                   stored_names, last, fn_in, users>>

\* The blocks of an explanation text, in the format the prompt asks for
\* (processing.py:296-300): a well-formed block has a '**Concept: name**'
\* header and an explanation, with or without an analogy; in a block of kind
\* "noclose" the header lacks its closing '**'.
ConceptBlocks ==
    { [kind |-> k, name |-> n, explanation |-> e, analogy |-> a] :
        k \in {"well"}, n \in {Caching, Memoization},
        e \in {<<"e1">>, <<"e2", "\n", "more">>}, a \in {<< >>, <<"a1">>} }
    \cup
    { [kind |-> "noclose", name |-> Caching, explanation |-> <<"e1">>,
       analogy |-> <<"a1">>] }

BlockText(b) ==
    <<"**Concept:", " ">> \o b.name
        \o (IF b.kind = "well" THEN <<"**">> ELSE << >>)
        \o <<"\n", "Explanation:", " ">> \o b.explanation \o <<"\n">>
        \o (IF b.analogy = << >> THEN << >>
            ELSE <<"Analogy:", " ">> \o b.analogy \o <<"\n">>)
        \o <<"\n">>

RECURSIVE BlocksText(_)
BlocksText(bs) ==
    IF bs = << >> THEN << >> ELSE BlockText(Head(bs)) \o BlocksText(Tail(bs))

BlockSeqs == UNION {[1..n -> ConceptBlocks] : n \in 0..MaxBlocks}

\* What the text starts with: nothing, or a sentence before the first block.
Preambles == {<< >>, <<"Here", " ", "they", " ", "are:", "\n">>}

\* The calls of parse_concepts: the text, and the blocks it was written from.
ConceptsInputs ==
    { [fn |-> "parse_concepts", text |-> pre \o BlocksText(bs), blocks |-> bs] :
        pre \in Preambles, bs \in BlockSeqs }

\* parse_concepts(fn_in.text) returns (processing.py:20-56)
ParseConcepts ==
    /\ fn_in.fn = "parse_concepts"
    /\ ~fn_out.returned
    /\ fn_out' = [returned |-> TRUE, value |-> parse_concepts(fn_in.text)]
    /\ UNCHANGED <<collections, distance, now, memory, run, calls, stores,
                   stored_names, last, fn_in, users>>

\* The lines of an identification answer.  The prompt asks for
\* '- name | domain' (processing.py:197-202); a line of kind "entry" is one,
\* "plain" is one without the bullet, "three" has a third field, "nosep" has
\* no separator and "blank" is empty.
EntryLines ==
    { [kind |-> "entry", name |-> n, domain |-> d] :
        n \in {Caching, <<"API", " ", "Gateway">>}, d \in {Databases, << >>} }
    \cup
    { [kind |-> k, name |-> Memoization, domain |-> Cooking] :
        k \in {"plain", "three", "nosep", "blank"} }

EntryLineText(l) ==
    CASE l.kind = "entry" ->
            <<"-", " ">> \o l.name \o <<" ", "|">>
                \o (IF l.domain = << >> THEN << >> ELSE <<" ">> \o l.domain)
      [] l.kind = "plain" -> l.name \o <<"|">> \o l.domain \o <<" ">>
      [] l.kind = "three" ->
            <<"-", " ">> \o l.name \o Bar \o l.domain \o Bar \o <<"note">>
      [] l.kind = "nosep" -> <<"-", " ">> \o l.name \o <<" ">> \o l.domain
      [] OTHER -> << >>

LineSeqs == UNION {[1..n -> EntryLines] : n \in 0..MaxLines}

\* The calls of the entry parser: the answer, and the lines it was written
\* from.
EntriesInputs ==
    { [fn |-> "parse_concept_entries",
       text |-> Join([i \in 1..Len(ls) |-> EntryLineText(ls[i])], <<"\n">>),
       lines |-> ls] : ls \in LineSeqs }

\* processing.py:211-220  the loop over response.content's lines ends
ParseEntries ==
    /\ fn_in.fn = "parse_concept_entries"
    /\ ~fn_out.returned
    /\ fn_out' = [returned |-> TRUE, value |-> parse_concept_entries(fn_in.text)]
    /\ UNCHANGED <<collections, distance, now, memory, run, calls, stores,
                   stored_names, last, fn_in, users>>

InitParse ==
    /\ collections = [d \in Dirs |-> << >>]
    /\ distance = << >>
    /\ now = 0
    /\ memory = ConceptMemory(DefaultDir)
    /\ run = [t \in Threads |-> IdleFrame]
    /\ calls = 0
    /\ stores = 0
    /\ stored_names = [d \in Dirs |-> << >>]
    /\ last = NoCall
    /\ fn_in \in {[fn |-> "parse_relationships", text |-> x] : x \in RelationshipTexts}
                \cup ConceptsInputs \cup EntriesInputs
    /\ fn_out = NotReturned
    /\ users = << >>

NextParse ==
    \/ ParseRelationships
    \/ ParseConcepts
    \/ ParseEntries

\* A parser applied to one text.
SpecParse == InitParse /\ [][NextParse]_vars

\* --------------------------------------------------------------- users.py

\* str.replace(" ", "_")
ReplaceSpaces(s) == [i \in 1..Len(s) |-> IF s[i] = " " THEN "_" ELSE s[i]]

\* Mutant: the name is not lower-cased.
NormalizeUsername_NoLower(username) == ReplaceSpaces(Strip(username))

\* users.py:28  username.lower().strip().replace(" ", "_")
NormalizeUsername(username) == ReplaceSpaces(Strip(Lower(username)))

\* users.py:31  `user_id in users`
HasUser(us, user_id) == \E i \in 1..Len(us) : us[i].user_id = user_id

\* users[user_id]
UserEntry(us, user_id) == us[CHOOSE i \in 1..Len(us) : us[i].user_id = user_id]

\* users.py:20-43  the store after the call and the (user_id, token, is_new)
\* returned; token and created_at are what secrets.token_urlsafe(32) and
\* datetime.now() give when the user is created.
create_or_get_user(us, username, token, created_at) ==
    LET user_id == NormalizeUsername(username)
    IN IF HasUser(us, user_id)
       THEN [users |-> us,
             returned |-> <<user_id, UserEntry(us, user_id).token, FALSE>>]
       ELSE [users |-> Append(us, [user_id |-> user_id, username |-> username,
                                   token |-> token, created_at |-> created_at]),
             returned |-> <<user_id, token, TRUE>>]

\* users.py:45-56  the first entry, in the file's order, with that token
verify_token(us, token) ==
    IF \E i \in 1..Len(us) : us[i].token = token
    THEN us[CHOOSE i \in 1..Len(us) :
                /\ us[i].token = token
                /\ \A j \in 1..(i - 1) : us[j].token # token].user_id
    ELSE None

\* The values of secrets.token_urlsafe(32): more of them than user ids the
\* usernames below can make.
Tokens == {<<"tok1">>, <<"tok2">>, <<"tok3">>, <<"tok4">>}

\* The usernames of the login requests, each with the user id it stands
\* for: letter case, spaces around and inside, and a name of spaces only.
UsernameInputs ==
    { [username |-> <<"Alice">>, user_id |-> <<"alice">>],
      [username |-> <<" ", "ALICE", " ">>, user_id |-> <<"alice">>],
      [username |-> <<"alice">>, user_id |-> <<"alice">>],
      [username |-> <<"Ann", " ", "Lee">>, user_id |-> <<"ann", "_", "lee">>],
      [username |-> <<"ann", "_", "lee", "\n">>, user_id |-> <<"ann", "_", "lee">>],
      [username |-> <<" ">>, user_id |-> << >>] }

\* users.py:20-43  create_or_get_user(in.username).  The token drawn is one
\* no stored user has: 32 random bytes do not repeat.
CreateOrGetUser(in, token) ==
    /\ \A i \in 1..Len(users) : users[i].token # token
    /\ LET out == create_or_get_user(users, in.username, token, now)
       IN /\ users' = out.users
          /\ now' = IF out.returned[3] THEN now + 1 ELSE now
          /\ last' = [op |-> "create_or_get_user", in |-> in, before |-> users,
                      returned |-> out.returned]
    /\ UNCHANGED <<collections, distance, stores, stored_names, fn_in, fn_out>>
    /\ PipelineUnchanged

\* users.py:45-56  verify_token(token)
VerifyToken(token) ==
    /\ last' = [op |-> "verify_token", token |-> token,
                returned |-> verify_token(users, token)]
    /\ UNCHANGED <<collections, distance, now, stores, stored_names, fn_in,
                   fn_out, users>>
    /\ PipelineUnchanged

InitUsers ==
    /\ collections = [d \in Dirs |-> << >>]
    /\ distance = << >>
    /\ now = 0
    /\ memory = ConceptMemory(DefaultDir)
    /\ run = [t \in Threads |-> IdleFrame]
    /\ calls = 0
    /\ stores = 0
    /\ stored_names = [d \in Dirs |-> << >>]
    /\ last = NoCall
    /\ fn_in = NoText
    /\ fn_out = NotReturned
    /\ users = << >>

NextUsers ==
    \/ \E in \in UsernameInputs, token \in Tokens : CreateOrGetUser(in, token)
    \/ \E token \in Tokens \cup {<< >>} : VerifyToken(token)

\* Logins and token checks, one after another, from an empty users.json.
SpecUsers == InitUsers /\ [][NextUsers]_vars

\* ------------------------------------------------------------- properties

C3_DomainFilterAnyDomain ==
    last.op = "check_prior_knowledge" =>
        LET D == last.in.current_domain
            coll == collections[Collection(last.self)]
            hits == QueryResults(coll, last.concept_name)
        IN /\ D # None =>
                \A k \in 1..Len(last.records) : last.records[k].domain \in {<< >>, D}
           /\ \A p \in 1..Len(hits) :
                (/\ Dist(last.concept_name, coll[hits[p]].document) < HardThreshold
                 /\ (D = None \/ coll[hits[p]].domain = << >>))
                => \E k \in 1..Len(last.records) : last.records[k] = coll[hits[p]]

\* C3 amended: with a non-empty current_domain D, no returned record has a
\* non-empty domain other than D; records with an empty domain, and every
\* record when current_domain is None or empty, are not dropped by the filter.
C3_DomainFilter ==
    last.op = "check_prior_knowledge" =>
        LET D == last.in.current_domain
            coll == collections[Collection(last.self)]
            hits == QueryResults(coll, last.concept_name)
        IN /\ (D # None /\ D # << >>) =>
                \A k \in 1..Len(last.records) : last.records[k].domain \in {<< >>, D}
           /\ \A p \in 1..Len(hits) :
                (/\ Dist(last.concept_name, coll[hits[p]].document) < HardThreshold
                 /\ (D = None \/ D = << >> \/ coll[hits[p]].domain = << >>))
                => \E k \in 1..Len(last.records) : last.records[k] = coll[hits[p]]

\* C3 witness: "Caching" is stored with domain "Databases" within the
\* distance, and the query for "Caching" with domain "Cooking" returned nothing.
C3_Witness ==
    /\ last.op = "check_prior_knowledge"
    /\ last.in.current_domain = Cooking
    /\ last.result = << >>
    /\ \E i \in 1..Len(collections[Collection(last.self)]) :
          LET r == collections[Collection(last.self)][i]
          IN /\ r.concept_name = Caching
             /\ r.domain = Databases
             /\ Dist(Caching, r.document) < HardThreshold

\* C4: a candidate is returned exactly when its distance is strictly below
\* the threshold: the one the caller passes, or 0.5 when none is passed.
C4_StrictThreshold ==
    (last.op = "check_prior_knowledge" /\ last.in.current_domain = None) =>
        LET t == IF last.in.threshold_given THEN last.in.threshold ELSE 5
            coll == collections[Collection(last.self)]
            hits == QueryResults(coll, last.concept_name)
        IN \A p \in 1..Len(hits) :
              (Dist(last.concept_name, coll[hits[p]].document) < t)
              <=> \E k \in 1..Len(last.records) : last.records[k] = coll[hits[p]]

C6_StoreFailureKeepsResult ==
    \A t \in Threads :
        (Frame(t).pc = "restore" /\ Frame(t).failure = "store")
            => Frame(t).result # FailureResult

\* C7: a run whose check_prior_knowledge raised goes on to a successful
\* result.
C7_LookupFailureContinues ==
    \A t \in Threads :
        (Frame(t).pc = "restore" /\ Frame(t).failure = "lookup")
            => Frame(t).result # FailureResult

\* C8: a run one of whose LLM calls failed returns (None, None, None) and has
\* written no record; a run has written records only once its sections,
\* identification, explanation and questions calls (and its relationship
\* call, when made) have all returned.
C8_LLMFailureUniform ==
    \A t \in Threads :
        /\ Frame(t).failure = "llm"
              => Frame(t).result = FailureResult /\ Frame(t).wrote = 0
        /\ Frame(t).wrote > 0 => Frame(t).llm_calls = 4 + Frame(t).relate_calls

\* C8 witness: a run failed in an LLM call after three or more had returned.
C8_Witness ==
    \E t \in Threads :
        /\ Frame(t).pc = "restore"
        /\ Frame(t).failure = "llm"
        /\ Frame(t).llm_calls >= 3

\* C9: every record of every collection has a non-empty name and a
\* non-empty explanation.
C9_RecordsNonEmpty ==
    \A d \in Dirs : \A i \in 1..Len(collections[d]) :
        collections[d][i].concept_name # << >> /\ collections[d][i].document # << >>

\* C10: for a one-line text 'A | B | R', parse_relationships returns
\* {A: (B, R)}, unless B or R is the sentinel "no prior connection" in some
\* letter case, and then it returns no entry for A.
C10_ParseRelationships ==
    (fn_in.fn = "parse_relationships" /\ fn_out.returned) =>
        \A a \in NewConcepts, b \in RelatedTos, r \in Relationships :
            fn_in.text = RelLine(a, b, r) =>
                IF Lower(b) = NoPriorConnection \/ Lower(r) = NoPriorConnection
                THEN a \notin DOMAIN fn_out.value
                ELSE /\ a \in DOMAIN fn_out.value
                     /\ fn_out.value[a] = <<b, r>>

C12_IdsUnique ==
    last.op = "store_concepts" =>
        \A k \in 1..Len(last.ids) : \A i \in 1..Len(last.before) :
            last.before[i].id # last.ids[k]

C14_StoredRecordsImmutable ==
    [][ /\ \A d \in Dirs :
              /\ Len(collections'[d]) >= Len(collections[d])
              /\ SubSeq(collections'[d], 1, Len(collections[d])) = collections[d]
        /\ (last' # last /\ last'.op \in {"check_prior_knowledge", "get_all_concepts",
                                           "get_stats", "stats_endpoint"})
              => collections' = collections ]_vars

\* C14 witness: after two store_concepts calls on one collection and a read
\* of it, the first record stored is still the first.
C14_Witness ==
    /\ stores = 2
    /\ last.op \in {"check_prior_knowledge", "get_stats"}
    /\ Len(last.records) >= 1
    /\ Len(collections[Collection(last.self)]) >= 2
    /\ collections[Collection(last.self)][1].learned_date = 0
    /\ collections[Collection(last.self)][1].concept_name
          = collections[Collection(last.self)][2].concept_name

\* C15: get_stats returns the number of records, the number of distinct
\* source_url values, and the names of the min(5, n) records with the latest
\* learned_date, latest first; on an empty collection exactly
\* {total_concepts: 0, total_articles: 0, recent_concepts: []}.
C15_GetStats ==
    last.op = "get_stats" =>
        LET rs == last.records
            n == Len(rs)
            recent == last.result.recent_concepts
        IN /\ DOMAIN last.result = {"total_concepts", "total_articles", "recent_concepts"}
           /\ last.result.total_concepts = n
           /\ last.result.total_articles = Cardinality({rs[i].source_url : i \in 1..n})
           /\ Len(recent) = (IF n < 5 THEN n ELSE 5)
           /\ \A p \in 1..Len(recent) :
                \E i \in 1..n :
                    /\ rs[i].concept_name = recent[p]
                    /\ Cardinality({j \in 1..n :
                          rs[j].learned_date > rs[i].learned_date}) <= p - 1
                    /\ Cardinality({j \in 1..n :
                          rs[j].learned_date >= rs[i].learned_date}) >= p

\* C15 witness: statistics of a collection of six records from two articles.
C15_Witness ==
    /\ last.op = "get_stats"
    /\ Len(last.records) = 6
    /\ last.result.total_articles = 2
    /\ Len(last.result.recent_concepts) = 5

C17_ConcurrentStoresKeepAll ==
    \A d \in Dirs :
        /\ get_all_concepts(collections[d]) = stored_names[d]
        /\ \A i, j \in 1..Len(collections[d]) :
              i # j => collections[d][i].id # collections[d][j].id

\* C18: once the extractor of a request has returned: a text of fewer than
\* 100 characters gave (None, None), and a text of 100 or more (no download
\* or parse error) gave the text; on (None, None) the endpoint answers 400
\* and the request has made no LLM call, touched no collection, written no
\* record and saved no markdown file.
C18_ShortTextRejected ==
    \A t \in Threads :
        LET f == Frame(t)
            req == f.request
        IN (/\ f.caller = "endpoint"
            /\ req.source_type \in {"url", "pdf_url"}
            /\ f.pc # "extract") =>
              /\ req.text_len < 100 => f.extracted = <<None, None>>
              /\ (req.text_len >= 100 /\ ~req.raised)
                    => f.extracted[1] = Text(req.text_len)
              /\ f.extracted = <<None, None>> =>
                    /\ f.pc = "respond"
                    /\ f.http = 400
                    /\ f.llm_calls = 0
                    /\ f.accessed = {}
                    /\ f.wrote = 0
                    /\ ~f.saved

\* C18 witness: a PDF whose text has 99 characters was answered with 400.
C18_Witness ==
    \E t \in Threads :
        /\ Frame(t).pc = "respond"
        /\ Frame(t).request.source_type = "pdf_url"
        /\ Frame(t).request.text_len = 99
        /\ Frame(t).http = 400

\* C19: a run only moves forward through section breakdown, identification,
\* lookup, relationship resolution, explanation, questions and persistence:
\* every step of a run stays in its stage or goes to a later one (or to the
\* return), one LLM call at a time, and persistence is followed by the
\* return only.
C19_StepOrder ==
    [][ \A t \in Threads :
          LET Stage(pc) == CASE pc = "swap" -> 0
                             [] pc = "sections" -> 1
                             [] pc = "identify" -> 2
                             [] pc = "lookup" -> 3
                             [] pc = "relate" -> 4
                             [] pc = "explain" -> 5
                             [] pc = "questions" -> 6
                             [] pc = "store" -> 7
                             [] pc = "restore" -> 8
                             [] OTHER -> 9
              a == run[t].pc
              b == run'[t].pc
          IN (a # "idle" /\ run'[t] # run[t]) =>
              IF b = "idle" THEN a = "restore" ELSE
                /\ Stage(b) >= Stage(a)
                /\ Stage(b) = Stage(a) => a \in {"lookup", "store"}
                /\ run'[t].llm_calls \in {run[t].llm_calls, run[t].llm_calls + 1}
                /\ run'[t].llm_calls = run[t].llm_calls + 1
                      => (a \in {"sections", "identify", "relate", "explain",
                                 "questions"} /\ Stage(b) > Stage(a))
                /\ a = "store" => b \in {"store", "restore"}
                /\ run'[t].wrote > run[t].wrote => a = "store" ]_vars

\* C19 witness: a run that went through all seven steps is about to return.
C19_Witness ==
    \E t \in Threads :
        /\ Frame(t).pc = "restore"
        /\ Frame(t).failure = "none"
        /\ Frame(t).relate_calls = 1
        /\ Frame(t).llm_calls = 5
        /\ Frame(t).wrote = 2

\* C20: once the lookup of a run is over, the relationship call is, or is
\* about to be, made exactly when some identified concept has prior knowledge
\* in the run's memory; without a match the connection map is empty and the
\* run reaches its questions call after three LLM calls (four in all), with a
\* match after four (five in all).
C20_RelationshipIffMatch ==
    \A t \in Threads :
        LET f == Frame(t)
            coll == collections[UserDir(f.user_id)]
            matched == \E k \in 1..Len(f.concept_entries) :
                          check_prior_knowledge(coll, f.concept_entries[k].name,
                                                f.concept_entries[k].domain,
                                                DefaultThreshold) # << >>
        IN /\ f.pc = "relate" => (matched /\ f.relate_calls = 0)
           /\ f.pc \in {"explain", "questions"} =>
                /\ f.relate_calls = (IF matched THEN 1 ELSE 0)
                /\ matched <=> f.prior_knowledge # EmptyDict
                /\ ~matched => f.connection_map = EmptyDict
           /\ f.pc = "questions" => f.llm_calls = 3 + f.relate_calls
           /\ (f.pc = "restore" /\ f.failure = "none")
                => f.llm_calls = 4 + f.relate_calls

\* C20 witness: a run with a match made the relationship call and holds a
\* connection map with an entry.
C20_Witness ==
    \E t \in Threads :
        /\ Frame(t).pc = "explain"
        /\ Frame(t).relate_calls = 1
        /\ Frame(t).prior_knowledge # EmptyDict
        /\ Frame(t).connection_map # EmptyDict

\* The entries of a run's identification that its lookup loop has been
\* through.
LookedUp(f) ==
    IF f.pc = "lookup" THEN f.k - 1
    ELSE IF f.pc \in {"relate", "explain", "questions"} THEN Len(f.concept_entries)
    ELSE 0

\* C21 as stated: for every identified entry the lookup has been through,
\* prior_knowledge has an entry for its name exactly when
\* check_prior_knowledge(name, domain) is non-empty, and the entry is the
\* first match of that list, whatever other entries were identified.
C21_EntryPerLookup ==
    \A t \in Threads :
        LET f == Frame(t)
            coll == collections[Collection(f.user_memory)]
        IN \A k \in 1..LookedUp(f) :
              LET e == f.concept_entries[k]
                  related == check_prior_knowledge(coll, e.name, e.domain,
                                                   DefaultThreshold)
              IN /\ e.name \in DOMAIN f.prior_knowledge <=> related # << >>
                 /\ related # << >> => f.prior_knowledge[e.name] = related[1]

\* C21 amended: prior_knowledge has an entry for a name exactly when
\* check_prior_knowledge(name, domain) is non-empty for some identified entry
\* of that name, and the entry is the first match of the last such entry; it
\* has entries for identified names only; entries of other names play no
\* part.
C21_EntryPerName ==
    \A t \in Threads :
        LET f == Frame(t)
            coll == collections[Collection(f.user_memory)]
            Related(k) == check_prior_knowledge(coll, f.concept_entries[k].name,
                                                f.concept_entries[k].domain,
                                                DefaultThreshold)
            Matched(name) == {k \in 1..LookedUp(f) :
                                /\ f.concept_entries[k].name = name
                                /\ Related(k) # << >>}
        IN /\ \A k \in 1..LookedUp(f) :
                LET name == f.concept_entries[k].name
                IN /\ name \in DOMAIN f.prior_knowledge <=> Matched(name) # {}
                   /\ Matched(name) # {} =>
                        f.prior_knowledge[name] =
                            Related(CHOOSE m \in Matched(name) :
                                        \A j \in Matched(name) : j <= m)[1]
           /\ f.pc \in {"lookup", "relate", "explain", "questions"} =>
                DOMAIN f.prior_knowledge \subseteq
                    {f.concept_entries[k].name : k \in 1..LookedUp(f)}

\* C21 witness: a name was identified twice, under two domains; both lookups
\* matched, differently, and the entry kept is the second one's.
C21_Witness ==
    \E t \in Threads :
        LET f == Frame(t)
            coll == collections[Collection(f.user_memory)]
        IN /\ f.pc = "relate"
           /\ Len(f.concept_entries) = 2
           /\ f.concept_entries[1].name = f.concept_entries[2].name
           /\ check_prior_knowledge(coll, f.concept_entries[1].name,
                                    f.concept_entries[1].domain,
                                    DefaultThreshold) # << >>
           /\ f.prior_knowledge[f.concept_entries[2].name] #
                 check_prior_knowledge(coll, f.concept_entries[1].name,
                                       f.concept_entries[1].domain,
                                       DefaultThreshold)[1]

\* C22: the entry parser returns one {name, domain} entry for each line with
\* a separator and exactly two fields (with or without the bullet, with or
\* without a domain), in line order; lines without a separator, with three
\* fields or empty give nothing and change nothing of the others; the parser
\* returns on every answer.
C22_ParseEntries ==
    (fn_in.fn = "parse_concept_entries" /\ fn_out.returned) =>
        LET TwoFields(l) == l.kind \in {"entry", "plain"}
            good == SelectSeq(fn_in.lines, TwoFields)
        IN /\ Len(fn_out.value) = Len(good)
           /\ \A i \in 1..Len(good) :
                /\ DOMAIN fn_out.value[i] = {"name", "domain"}
                /\ fn_out.value[i].name = good[i].name
                /\ fn_out.value[i].domain = good[i].domain

\* C22 witness: of three lines, the second with a third field, the first
\* and the third were returned.
C22_Witness ==
    /\ fn_in.fn = "parse_concept_entries"
    /\ fn_out.returned
    /\ Len(fn_in.lines) = 3
    /\ fn_in.lines[1].kind = "entry"
    /\ fn_in.lines[2].kind = "three"
    /\ fn_in.lines[3].kind = "plain"
    /\ Len(fn_out.value) = 2
    /\ fn_out.value[2].name = Memoization

\* C23: the record a run adds for its i-th parsed concept (i from 0) has the
\* domain of the i-th identified entry, whatever the names, when there is
\* one, and the domain "General" when the identified entries are i or fewer.
C23_DomainByPosition ==
    [][ \A t \in Threads :
          (run[t].pc = "store" /\ run'[t].wrote = run[t].wrote + 1) =>
              LET f == run[t]
                  after == collections'[Collection(f.store_self)]
                  record == after[Len(after)]
              IN /\ Len(after) = Len(collections[Collection(f.store_self)]) + 1
                 /\ record.concept_name = f.parsed_concepts[f.i + 1]["name"]
                 /\ record.domain =
                       IF f.i < Len(f.concept_entries)
                       THEN f.concept_entries[f.i + 1].domain
                       ELSE General ]_vars

\* C23 witness: "Caching", explained first and identified second, is stored
\* with the domain of the entry identified first, and a concept explained
\* beyond the identified entries is stored with "General".
C23_Witness ==
    /\ \E i \in 1..Len(collections[UserDir("u1")]) :
          /\ collections[UserDir("u1")][i].concept_name = Caching
          /\ collections[UserDir("u1")][i].domain = Cooking
    /\ \E i \in 1..Len(collections[UserDir("u1")]) :
          /\ collections[UserDir("u1")][i].concept_name = Memoization
          /\ collections[UserDir("u1")][i].domain = General

\* C24: the step of a run that parses its explanations into zero concepts
\* (the questions call having returned) is the return of the sections, the
\* explanation text and the questions, none of them None; it changes no
\* collection, and the run has made no add: a run that returns unparseable
\* explanations has written nothing.
C24_ZeroConceptsReturns ==
    [][ \A t \in Threads :
          /\ (/\ run[t].pc = "questions"
               /\ run'[t] # run[t]
               /\ run'[t].failure = "none"
               /\ parse_concepts(run[t].simplified) = << >>) =>
                  /\ run'[t].pc = "restore"
                  /\ run'[t].result[1] = run[t].sections
                  /\ run'[t].result[2] = run[t].simplified
                  /\ \A k \in 1..3 : run'[t].result[k] # None
                  /\ run'[t].wrote = 0
                  /\ collections' = collections
          /\ (/\ run[t].pc = "restore"
               /\ run[t].failure = "none"
               /\ parse_concepts(run[t].result[2]) = << >>) =>
                  /\ run[t].wrote = 0
                  /\ collections' = collections ]_vars

\* C24 witness: the second run of a user whose memory holds two records has
\* returned an explanation text without a concept block.
C24_Witness ==
    \E t \in Threads :
        /\ Frame(t).pc = "restore"
        /\ Frame(t).failure = "none"
        /\ Frame(t).result[2] = <<"Nothing", " ", "to", " ", "explain">>
        /\ Frame(t).result[3] = QuestionsText
        /\ Frame(t).wrote = 0
        /\ calls = 2
        /\ Len(collections[UserDir(Frame(t).user_id)]) = 2

\* C25: check_prior_knowledge returns at most 3 matches; each is a stored
\* record that passes the distance and the domain filter and has fewer than
\* 3 stored records strictly nearer to the query; they come closest first;
\* the list is empty when the memory is empty and when no stored record
\* passes both filters.
C25_AtMostThreeNearest ==
    last.op = "check_prior_knowledge" =>
        LET coll == collections[Collection(last.self)]
            q == last.concept_name
            D == last.in.current_domain
            Passes(r) ==
                /\ Dist(q, r.document) < HardThreshold
                /\ (D = None \/ D = << >> \/ r.domain = << >> \/ r.domain = D)
        IN /\ Len(last.result) <= 3
           /\ Len(last.result) = Len(last.records)
           /\ \A k \in 1..Len(last.records) :
                /\ \E i \in 1..Len(coll) : coll[i] = last.records[k]
                /\ Passes(last.records[k])
                /\ Cardinality({j \in 1..Len(coll) :
                        Dist(q, coll[j].document)
                            < Dist(q, last.records[k].document)}) < 3
                /\ last.result[k].concept = last.records[k].concept_name
                /\ last.result[k].explanation = last.records[k].document
           /\ \A k, l \in 1..Len(last.records) :
                k < l => /\ Dist(q, last.records[k].document)
                              <= Dist(q, last.records[l].document)
                         /\ last.records[k] # last.records[l]
           /\ coll = << >> => last.result = << >>
           /\ (\A i \in 1..Len(coll) : ~Passes(coll[i])) => last.result = << >>

\* C25 witness: of four stored records within the distance, three were
\* returned, the nearer two stored after the third.
C25_Witness ==
    /\ last.op = "check_prior_knowledge"
    /\ Len(collections[Collection(last.self)]) = 4
    /\ \A i \in 1..4 :
          Dist(Caching, collections[Collection(last.self)][i].document) < HardThreshold
    /\ Len(last.result) = 3
    /\ Dist(Caching, last.records[1].document) < Dist(Caching, last.records[3].document)
    /\ last.records[3] = collections[Collection(last.self)][1]

\* C26: a request whose processing failed (the call returned the failure
\* triple, or raised) is answered with 500, holds nothing of what the run had
\* generated and has not called save_to_markdown; a request has saved, or is
\* answered with 200, only after a run that returned sections, explanations
\* and questions.
C26_FailureIs500 ==
    \A t \in Threads :
        LET f == Frame(t)
        IN f.caller = "endpoint" =>
            /\ f.failure # "none" =>
                  /\ ~f.saved
                  /\ f.http \in {0, 500}
                  /\ f.pc = "respond" => f.http = 500
                  /\ f.pc \in {"after", "respond"} =>
                        f.result \in {None, FailureResult}
            /\ (f.saved \/ f.http = 200) =>
                  /\ f.saved /\ f.http = 200
                  /\ f.failure = "none"
                  /\ f.llm_calls >= 4
                  /\ \A k \in 1..3 : f.result[k] # None
            /\ (f.pc = "respond" /\ f.result = FailureResult) => f.http = 500

\* C26 witness: a request whose run failed in its store, after all its LLM
\* calls, is answered with 500 and has saved nothing.
C26_Witness ==
    \E t \in Threads :
        /\ Frame(t).pc = "respond"
        /\ Frame(t).failure = "store"
        /\ Frame(t).llm_calls >= 4
        /\ Frame(t).http = 500
        /\ ~Frame(t).saved

C28_FailedStoreKeepsPrefix ==
    [][ \A t \in Threads :
          (run[t].pc = "store" /\ run'[t].failure = "store") =>
              LET f == run[t]
                  before == collections[Collection(f.store_self)]
                  after == collections'[Collection(f.store_self)]
              IN /\ run'[t].pc = "restore"
                 /\ run'[t].result = FailureResult
                 /\ f.i < Len(f.parsed_concepts)
                 /\ run'[t].wrote = f.i
                 /\ after = before
                 /\ Len(after) >= f.i
                 /\ \A j \in 1..f.i :
                      /\ after[Len(after) - f.i + j].concept_name
                            = f.parsed_concepts[j]["name"]
                      /\ after[Len(after) - f.i + j].document
                            = f.parsed_concepts[j]["explanation"]
                      /\ after[Len(after) - f.i + j].learned_date >= now - f.i ]_vars

\* C28 witness: a run of two concepts failed in its second add; it returns
\* the failure triple and its first concept is stored.
C28_Witness ==
    \E t \in Threads :
        /\ Frame(t).pc = "restore"
        /\ Frame(t).failure = "store"
        /\ Frame(t).result = FailureResult
        /\ Frame(t).wrote = 1
        /\ calls = 1
        /\ Len(collections[UserDir(Frame(t).user_id)]) = 1
        /\ collections[UserDir(Frame(t).user_id)][1].concept_name = Caching

\* C29: a run that has entered process_article eventually returns from it,
\* provided no LLM call and no memory operation waits for ever; what it
\* returns is its three generated texts or (None, None, None), every
\* exception raised inside having been caught.
C29_RunTerminates ==
    /\ \A t \in Threads :
          [](Frame(t).pc \in {"sections", "identify", "lookup", "relate", "explain",
                              "questions", "store"}
                => <>(Frame(t).pc = "restore"))
    /\ [](\A t \in Threads :
             Frame(t).pc = "restore" =>
                \/ Frame(t).failure = "none"
                      /\ \A k \in 1..3 : Frame(t).result[k] # None
                \/ Frame(t).failure \in {"llm", "lookup", "store"}
                      /\ Frame(t).result = FailureResult)

\* C29 witness: a run whose lookup raised, after two LLM calls, is at its
\* return with the failure triple.
C29_Witness ==
    \E t \in Threads :
        /\ Frame(t).pc = "restore"
        /\ Frame(t).failure = "lookup"
        /\ Frame(t).llm_calls = 2
        /\ Frame(t).result = FailureResult

\* C30: verify_token(t) returns the user id whose stored token is t, and
\* None when no stored token is t; a create_or_get_user for a username whose
\* normalized form is a stored user id returns that id and its stored token
\* with is_new false and leaves the store as it was; otherwise it adds one
\* entry, for that id with the token it returns, after the others.  Stored
\* ids and stored tokens are all different.
C30_TokensIdentifyUsers ==
    /\ \A i, j \in 1..Len(users) :
          i # j => /\ users[i].user_id # users[j].user_id
                   /\ users[i].token # users[j].token
    /\ last.op = "verify_token" =>
          /\ \A i \in 1..Len(users) :
                users[i].token = last.token <=> last.returned = users[i].user_id
          /\ (\A i \in 1..Len(users) : users[i].token # last.token)
                <=> last.returned = None
    /\ last.op = "create_or_get_user" =>
          LET known == \E i \in 1..Len(last.before) :
                          last.before[i].user_id = last.in.user_id
          IN /\ last.returned[1] = last.in.user_id
             /\ last.returned[3] = ~known
             /\ known =>
                  /\ users = last.before
                  /\ \E i \in 1..Len(users) :
                        /\ users[i].user_id = last.in.user_id
                        /\ users[i].token = last.returned[2]
             /\ ~known =>
                  /\ Len(users) = Len(last.before) + 1
                  /\ SubSeq(users, 1, Len(last.before)) = last.before
                  /\ users[Len(users)].user_id = last.in.user_id
                  /\ users[Len(users)].token = last.returned[2]
                  /\ users[Len(users)].username = last.in.username

\* C30 witness: with two users stored, a login as " ALICE " returned the id
\* and the token of the user created as "Alice".
C30_Witness ==
    /\ last.op = "create_or_get_user"
    /\ last.in.username = <<" ", "ALICE", " ">>
    /\ ~last.returned[3]
    /\ Len(users) = 2
    /\ users[1].username = <<"Alice">>
    /\ last.returned[2] = users[1].token

====
